---- MODULE Spec2Model ----
(***************************************************************************)
(* A model of the ReactiveWTHN renderer core: the batch scheduler          *)
(* (src/src/renderer/batch.ts), the effect bridge and the DOM renderer     *)
(* (src/src/renderer/index.ts).                                            *)
(*                                                                         *)
(* JavaScript runs every handler to completion, so each action below is    *)
(* one whole synchronous call (schedule, flush, mount, a disposer, a cell  *)
(* write) and the handlers are operators from a state record to a state    *)
(* record, composed the way the code calls them.                           *)
(***************************************************************************)
EXTENDS Integers, Sequences, FiniteSets, TLC

VARIABLES
  pending,      \* BatchScheduler.pending: a Set, kept in insertion order
  isFlushing,   \* BatchScheduler.isFlushing
  isScheduled,  \* BatchScheduler.isScheduled
  microtasks,   \* number of queued microtasks "() => this.flush()"
  immediate,    \* DOMRenderer.immediate
  templateKind, \* which template the for-instruction was built with
  cache,        \* DOMRenderer.cache: instruction -> {nodes, cleanup}
  cells,        \* the values of the Signal.State cells
  needsEnqueue, \* the effect bridge's needsEnqueue
  wdirty,       \* the dirty flag of the Watcher w
  watchList,    \* the computeds w watches, in the order of its producer list
  effects,      \* the computeds made by effect(), with their closure state
  children,     \* the document: parent node -> its child nodes in order
  nodeValue,    \* the document: node -> the text or attribute value it shows
  nextNode,     \* the next node identity createElement/cloneNode hands out
  mounts,       \* the mount() calls made: what each disposer closed over
  calls,        \* history: arguments of schedule() since the last pass began
  passCalls,    \* history: the schedule() calls that preceded the last pass
  passSnap,     \* history: the array "updates" of the last pass
  passRan,      \* history: the callbacks invoked by the last pass, in order
  passThrew,    \* history: positions in the last pass whose callback threw
  reentRan,     \* history: a flush() made inside a pass did something
  hist,         \* history: what the renderer did (see InitHist)
  compared      \* history: a call of itemsEqual, its arguments and result

vars == <<pending, isFlushing, isScheduled, microtasks, immediate,
          templateKind, cache,
          cells, needsEnqueue, wdirty, watchList, effects, children,
          nodeValue, nextNode, mounts, calls, passCalls, passSnap, passRan,
          passThrew, reentRan, hist, compared>>

----------------------------------------------------------------------------
(* Bounds of the model *)

\* schedule() calls the environment makes between two passes
MaxCalls == 3

\* flush microtasks queued at one time
MaxMicrotasks == 2

\* mount() calls
MaxMounts == 2

\* writes to cells
MaxWrites == 2

\* mount() calls with the for-instruction
MaxForMounts == 1

\* calls of disposers
MaxDisposals == 2

\* items in the sequence cell
MaxItems == 3

\* effect() calls client code makes
MaxEffects == 3

\* calls of one disposer that client code makes
MaxDisposerCalls == 2

\* objects on the heap when itemsEqual is called
MaxObjects == 2

\* schedule() calls between two flush passes, where liveness is checked
MaxLiveCalls == 2

----------------------------------------------------------------------------
(* The objects of the model *)

\* Nodes are numbers.  The nodes that exist before any mount:
NoNode == 0          \* null, as in node.parentNode === null
Container1 == 1      \* a container element passed to mount()
Container2 == 2      \* another one
ForParent == 3       \* DOMBuilder.for: parent  (ir/index.ts:217)
Anchor == 4          \* DOMBuilder.for: anchor  (ir/index.ts:216)
TextNode == 5        \* DOMBuilder.text: node   (ir/index.ts:196)
DivElem == 6         \* DOMBuilder.element: element of the instruction "D"
IfParent == 7        \* DOMBuilder.if: parent   (ir/index.ts:244)
IfAnchor == 8        \* DOMBuilder.if: anchor   (ir/index.ts:243)
FirstFreshNode == 9  \* cloneNode / createElement results start here

\* The nodes whose child lists the model keeps
Parents == {Container1, Container2, ForParent, DivElem, IfParent}

\* The instruction objects client code passes to mount().  "uid" stands for
\* the object's identity; instructions made by a for-template are new objects
\* at every call and carry uid "".
\*   S: DOMBuilder.element with no bindings         (static)
\*   T: DOMBuilder.text(cell)                       (dynamic, text binding)
\*   D: DOMBuilder.element("div", {}, {}, [S, T, S]) (dynamic, children)
\*   F: DOMBuilder.for(items, item => item.id, template)
\*   I: DOMBuilder.if(cond, [S])
Binding(type, cell, node) == [type |-> type, cell |-> cell, node |-> node]

Instr(uid) ==
  CASE uid = "S" -> [uid |-> "S", type |-> "static", target |-> NoNode,
                     bindings |-> <<>>, children |-> <<>>]
    [] uid = "T" -> [uid |-> "T", type |-> "dynamic", target |-> TextNode,
                     bindings |-> <<Binding("text", "txt", TextNode)>>,
                     children |-> <<>>]
    [] uid = "D" -> [uid |-> "D", type |-> "dynamic", target |-> DivElem,
                     bindings |-> <<>>, children |-> <<"S", "T", "S">>]
    [] uid = "F" -> [uid |-> "F", type |-> "dynamic", target |-> ForParent,
                     bindings |-> <<Binding("for", "items", Anchor)>>,
                     children |-> <<>>]
    [] uid = "I" -> [uid |-> "I", type |-> "dynamic", target |-> IfParent,
                     bindings |-> <<Binding("if", "cond", IfAnchor)>>,
                     children |-> <<>>]

InstrIds == {"S", "T", "D", "F", "I"}

\* Items of the sequence cell: objects {id, v}; trackBy is item => item.id.
\* "w" is the number of instructions the template returns for the item.
Item(id, v, w) == [id |-> id, v |-> v, w |-> w]
ItemObjects ==
  {Item(1, "a", 1), Item(1, "b", 1), Item(1, "a", 0), Item(2, "a", 1),
   Item(3, "a", 1)}
trackBy(item) == item.id

\* Instructions the for-template returns for an item: item.w new objects,
\* static elements or elements with an attribute binding on the cell "attr"
\* (target NoNode: the element is made with the instruction)
ItemInstr(kind) ==
  IF kind = "static"
  THEN [uid |-> "", type |-> "static", target |-> NoNode,
        bindings |-> <<>>, children |-> <<>>]
  ELSE [uid |-> "", type |-> "dynamic", target |-> NoNode,
        bindings |-> <<Binding("attribute", "attr", NoNode)>>,
        children |-> <<>>]

\* Three items, as main.ts:211-215 sets three tasks
InitItems == <<Item(1, "a", 1), Item(2, "a", 1), Item(3, "a", 1)>>

template(kind, item) == [i \in 1..item.w |-> ItemInstr(kind)]

----------------------------------------------------------------------------
(* Callbacks.  A callback in the pending set is a record; "kind" tells what *)
(* the function does when invoked.                                          *)

Cb(kind, id, node, val, eff, rem, ups) ==
  [kind |-> kind, id |-> id, node |-> node, val |-> val, eff |-> eff,
   rem |-> rem, ups |-> ups]

\* a callback of client code
UserCb(id) == Cb("user", id, NoNode, "", 0, <<>>, <<>>)

\* the function processPending
ProcessPendingCb == Cb("pp", "processPending", NoNode, "", 0, <<>>, <<>>)

\* the closure of a text or attribute binding: write val to node
\* (index.ts:106-108, 115-129); eff is the effect whose run made it
SetCb(kind, node, val, eff) == Cb(kind, "", node, val, eff, <<>>, <<>>)

\* the closure of a for-binding run (index.ts:260-263): the removals, then
\* the inserts and moves, each a pair <<node, referenceNode>>; run numbers
\* the run that made it
BundleCb(eff, run, rem, ups) == Cb("bundle", "", run, "", eff, rem, ups)

\* Callbacks a client passes to schedule(): two that just return, one that
\* throws, one that schedules "f", one that calls flush() while it runs.
UserCallbacks == {"f", "g", "boom", "chain", "reent"}

\* Function references (the same object at every use); every other kind is a
\* closure literal, a new object each time its call site is evaluated.
NamedKinds == {"user", "pp"}

Contains(seq, x) == \E i \in 1..Len(seq) : seq[i] = x

IndexOf(seq, x) ==
  IF Contains(seq, x) THEN CHOOSE i \in 1..Len(seq) :
                             seq[i] = x /\ \A j \in 1..(i - 1) : seq[j] # x
  ELSE 0

RECURSIVE Without(_, _)
\* seq without the elements equal to x
Without(seq, x) ==
  IF seq = <<>> THEN <<>>
  ELSE IF Head(seq) = x THEN Without(Tail(seq), x)
       ELSE <<Head(seq)>> \o Without(Tail(seq), x)

\* Array.prototype.splice(at, 0, x) with a 0-based index: past the end it
\* appends
SpliceIn(seq, at, x) ==
  IF at >= Len(seq) THEN Append(seq, x)
  ELSE SubSeq(seq, 1, at) \o <<x>> \o SubSeq(seq, at + 1, Len(seq))

\* Set.prototype.add without identity de-duplication
SetAddNoDedup(set, x) == Append(set, x)

\* Set.prototype.add: identity de-duplication, insertion order kept
SetAdd(set, x) ==
  IF x.kind \in NamedKinds /\ Contains(set, x) THEN set ELSE Append(set, x)

----------------------------------------------------------------------------
(* The document *)

parentNode(s, node) ==
  IF \E p \in Parents : Contains(s.children[p], node)
  THEN CHOOSE p \in Parents : Contains(s.children[p], node)
  ELSE NoNode

\* node.parentNode.removeChild(node)
removeChild(s, node) ==
  [s EXCEPT !.children = [p \in Parents |-> Without(@[p], node)]]

\* parent.appendChild(node): a node already in the document is moved
appendChild(s, parent, node) ==
  LET s1 == removeChild(s, node)
  IN [s1 EXCEPT !.children[parent] = Append(@, node)]

\* parent.insertBefore(node, ref), ref a child of parent
insertBefore(s, parent, node, ref) ==
  LET s1 == removeChild(s, node)
      at == IndexOf(s1.children[parent], ref)
  IN [s1 EXCEPT !.children[parent] = SpliceIn(@, at - 1, node)]

----------------------------------------------------------------------------
(* BatchScheduler.schedule and the renderer's scheduleUpdate *)

\* schedule() that adds the callback and queues no microtask
scheduleWithoutMicrotask(s, update) ==
  [s EXCEPT !.pending = SetAdd(@, update), !.calls = Append(@, update)]

schedule(s, update) ==
  LET s1 == [s EXCEPT !.pending = SetAdd(@, update),
                      !.calls = Append(@, update)]
  IN IF ~s1.isScheduled /\ ~s1.isFlushing
     THEN [s1 EXCEPT !.isScheduled = TRUE, !.microtasks = @ + 1]
     ELSE s1

RECURSIVE ApplyRemovals(_, _), ApplyUpdates(_, _)

\* index.ts:249-253 for each removal of a bundle
ApplyRemovals(s, rem) ==
  IF rem = <<>> THEN s
  ELSE ApplyRemovals(IF parentNode(s, Head(rem)) # NoNode
                     THEN removeChild(s, Head(rem))
                     ELSE s,
                     Tail(rem))

\* index.ts:228, 237 for each insert or move of a bundle:
\* referenceNode.parentNode!.insertBefore(node, referenceNode), a TypeError
\* when referenceNode.parentNode is null at that moment
ApplyUpdates(s, ups) ==
  IF ups = <<>> THEN [st |-> s, threw |-> FALSE]
  ELSE LET node == Head(ups)[1]
           ref == Head(ups)[2]
       IN IF parentNode(s, ref) = NoNode
          THEN [st |-> s, threw |-> TRUE]
          ELSE ApplyUpdates(insertBefore(s, parentNode(s, ref), node, ref),
                            Tail(ups))

\* Invoking a closure the renderer made: a binding's write (index.ts:106-108,
\* 115-129) or a for-binding's bundle (index.ts:260-263)
ApplyMutation(s, cb) ==
  IF cb.kind = "bundle"
  THEN LET Record(r) ==
             LET isLast == cb.node = r.st.hist.forRun.count
             IN [r EXCEPT !.st.hist.forRun.applied = @ \/ isLast,
                          !.st.hist.forRun.threw = @ \/ (isLast /\ r.threw)]
       IN Record(ApplyUpdates(ApplyRemovals(s, cb.rem), cb.ups))
  ELSE [st |-> [s EXCEPT !.nodeValue = (cb.node :> cb.val) @@ @,
                         !.hist.lateApplied =
                            @ \/ s.effects[cb.eff].disposed],
        threw |-> FALSE]

\* scheduleUpdate with the test of index.ts:35 always true
scheduleUpdateImmediate(s, update) ==
  ApplyMutation([s EXCEPT !.hist.syncApplied = TRUE], update)

\* index.ts:34-40; the history notes a mutation applied by the caller's run
scheduleUpdate(s, update) ==
  IF s.immediate
  THEN ApplyMutation([s EXCEPT !.hist.syncApplied = TRUE], update)
  ELSE [st |-> schedule(s, update), threw |-> FALSE]

----------------------------------------------------------------------------
(* The effect bridge (index.ts:288-327) over the signal library.           *)
(* A computed made by effect() is a record:                                *)
(*   kind, cell, node   what its callback does: the binding it serves      *)
(*   dirty              the computed's dirty flag                          *)
(*   stale              a cell it read has a newer version than it saw     *)
(*   producers          the computeds its last run read (effects made      *)
(*                      while it ran call computed.get() inside it)        *)
(*   errored            the computed's value is the error its last run    *)
(*                      threw; computed.get() throws it again              *)
(*   itemMap            renderForBinding's itemMap, for a for-binding      *)
(*   disposed, runs, late   history: the disposer was called, the number   *)
(*                      of callback runs, and of those after the disposer  *)
(*   cleanup            effect()'s variable "cleanup": 0 is undefined, k is *)
(*                      the function the k-th run of the callback returned *)
(*   log                history of a "leaf" effect: its callback's runs,   *)
(*                      its cleanup functions' calls, its disposer's calls *)

NewEffect(kind, cell, node) ==
  [kind |-> kind, cell |-> cell, node |-> node, dirty |-> TRUE,
   stale |-> FALSE, errored |-> FALSE, producers |-> <<>>,
   itemMap |-> <<>>, order |-> <<>>,
   disposed |-> FALSE, runs |-> 0, late |-> 0, cleanup |-> 0, log |-> <<>>]

\* An entry of an effect's log
Event(ev, k) == [ev |-> ev, k |-> k]

\* typeof cleanup === "function" && cleanup(), index.ts:315 and 324
CallCleanup(s, e) ==
  IF s.effects[e].cleanup = 0 THEN s
  ELSE [s EXCEPT !.effects[e].log = Append(@, Event("cleanup", s.effects[e].cleanup))]

\* How many times the disposer of effect e was called
DisposerCalls(s, e) ==
  Cardinality({i \in 1..Len(s.effects[e].log) : s.effects[e].log[i].ev = "dispose"})

Watched(s, e) == Contains(s.watchList, e)

\* A computed is live when the watcher watches it or a live computed reads it
Live(s, e) ==
  \/ Watched(s, e)
  \/ \E o \in 1..Len(s.effects) :
       Contains(s.effects[o].producers, e) /\ Watched(s, o)

\* The Watcher's notify callback, index.ts:294-299
notify(s) ==
  IF s.needsEnqueue
  THEN schedule([s EXCEPT !.needsEnqueue = FALSE], ProcessPendingCb)
  ELSE s

\* Signal.State.set as the bridge sees it: the computeds that read the cell
\* become stale; the live ones, and the live computeds that read them, are
\* marked dirty; a watcher not yet dirty that watches one of them is marked
\* dirty and notified
set(s, cell, value) ==
  LET readers == {e \in 1..Len(s.effects) : s.effects[e].cell = cell}
      marked == {e \in readers : Live(s, e) /\ ~s.effects[e].dirty}
      outer == {o \in 1..Len(s.effects) :
                  /\ Watched(s, o)
                  /\ ~s.effects[o].dirty
                  /\ \E e \in marked : Contains(s.effects[o].producers, e)}
      s1 == [s EXCEPT
               !.cells[cell] = value,
               !.effects = [e \in 1..Len(s.effects) |->
                  [@[e] EXCEPT !.stale = @ \/ (e \in readers),
                               !.dirty = @ \/ (e \in marked \cup outer)]]]
  IN IF (\E e \in marked \cup outer : Watched(s, e)) /\ ~s.wdirty
     THEN notify([s1 EXCEPT !.wdirty = TRUE])
     ELSE s1

\* Watcher.unwatch(computed): the computed leaves the producer list, the
\* list's last element taking its place
unwatch(s, e) ==
  LET i == IndexOf(s.watchList, e)
      n == Len(s.watchList)
  IN IF i = 0 THEN s
     ELSE [s EXCEPT !.watchList =
             SubSeq([s.watchList EXCEPT ![i] = s.watchList[n]], 1, n - 1)]

\* The disposer effect() returns, index.ts:322-326 (no callback of the
\* renderer returns a cleanup function)
disposer(s, e) ==
  LET Called(s1) ==
        IF s1.effects[e].kind = "leaf"
        THEN [s1 EXCEPT !.effects[e].log =
                Append(@, Event("dispose", DisposerCalls(s1, e) + 1))]
        ELSE s1
      Forget(s2) == [s2 EXCEPT !.effects[e].cleanup = 0,
                               !.effects[e].disposed = TRUE]
  IN Forget(CallCleanup(Called(unwatch(s, e)), e))

RECURSIVE RunDisposers(_, _)
\* cleanup.forEach(fn => fn()), the functions being effect disposers
RunDisposers(s, cleanup) ==
  IF cleanup = <<>> THEN s
  ELSE RunDisposers(disposer(s, Head(cleanup)), Tail(cleanup))

\* The helper itemsEqual, index.ts:276-287, on item objects
\* JavaScript values: a type tag and a payload; the payload of an object is
\* its identity, and a heap gives each object its own properties
Undefined == [t |-> "undefined", v |-> 0]
Null == [t |-> "null", v |-> 0]
NaN == [t |-> "nan", v |-> 0]
Num(n) == [t |-> "number", v |-> n]
Str(x) == [t |-> "string", v |-> x]
Obj(ref) == [t |-> "object", v |-> ref]

\* a === b: identity for objects, never true of NaN
StrictEquals(a, b) == a.t = b.t /\ a.t # "nan" /\ a.v = b.v

\* typeof a
TypeOf(a) ==
  CASE a.t \in {"object", "null"} -> "object"
    [] a.t \in {"number", "nan"} -> "number"
    [] OTHER -> a.t

\* Object.keys(o) for an object of own enumerable properties, as a set
Keys(o) == DOMAIN o

\* o[key]: a property the object does not have reads as undefined
Get(o, key) == IF key \in DOMAIN o THEN o[key] ELSE Undefined

itemsEqual(heap, a, b) ==
  IF StrictEquals(a, b) THEN TRUE
  ELSE IF TypeOf(a) # "object" \/ TypeOf(b) # "object" THEN FALSE
  ELSE IF a.t = "null" \/ b.t = "null" THEN FALSE
  ELSE IF Cardinality(Keys(heap[a.v])) # Cardinality(Keys(heap[b.v]))
  THEN FALSE
  ELSE \A key \in Keys(heap[a.v]) :
         StrictEquals(Get(heap[a.v], key), Get(heap[b.v], key))

\* The object an item of the sequence cell is
FieldsOf(item) ==
  [id |-> Num(item.id), v |-> Str(item.v), w |-> Num(item.w)]

----------------------------------------------------------------------------
(* DOMRenderer: materialization, bindings, the for-binding *)

RECURSIVE renderWithCache(_, _), renderDynamic(_, _), renderChildren(_, _, _),
          createBindings(_, _, _), effect(_, _, _, _), Recompute(_, _),
          renderForRun(_, _), ProcessItems(_, _, _, _), RenderAll(_, _)

\* A result of materialization: the state, the nodes, the cleanup functions
Rendered(s, nodes, cleanup) == [st |-> s, nodes |-> nodes, cleanup |-> cleanup]

NoEntry == [set |-> FALSE, nodes |-> <<>>, cleanup |-> <<>>]

\* index.ts:48-60: the nodes and cleanup functions of an instruction, made
\* and stored in the cache
materialize(s, instruction) ==
  LET uid == instruction.uid
      Store(r) ==
        IF uid = "" THEN r
        ELSE [r EXCEPT !.st.cache[uid] =
                          [set |-> TRUE, nodes |-> r.nodes,
                           cleanup |-> r.cleanup],
                       !.st.hist.built[uid] = @ + 1,
                       !.st.hist.builtEver[uid] = @ + 1]
  IN Store(IF instruction.type = "static"
           THEN Rendered([s EXCEPT !.nextNode = @ + 1], <<s.nextNode>>, <<>>)
           ELSE renderDynamic(s, instruction))

\* renderWithCache without the look-up of index.ts:43-46
renderWithoutCache(s, instruction) == materialize(s, instruction)

\* index.ts:42-61.  A static instruction yields a clone of its element, a new
\* node.  The entry of an instruction made by a for-template is not kept:
\* the object is never passed to renderWithCache again.
renderWithCache(s, instruction) ==
  IF instruction.uid # "" /\ s.cache[instruction.uid].set
  THEN Rendered(s, s.cache[instruction.uid].nodes,
                s.cache[instruction.uid].cleanup)
  ELSE materialize(s, instruction)

\* index.ts:72-75 and 88-101: an effect per text or attribute binding; the
\* switch has no case for the other kinds modelled here
createBindings(s, bindings, target) ==
  IF bindings = <<>> THEN Rendered(s, <<>>, <<>>)
  ELSE LET b == Head(bindings)
           node == IF b.node = NoNode THEN target ELSE b.node
           Rest(r) ==
             LET Join(rest) == [rest EXCEPT !.cleanup = <<r.id>> \o @]
             IN Join(createBindings(r.st, Tail(bindings), target))
       IN IF b.type \in {"text", "attribute"}
          THEN Rest(effect(s, b.type, b.cell, node))
          ELSE createBindings(s, Tail(bindings), target)

\* index.ts:78-82
renderChildren(s, kids, target) ==
  IF kids = <<>> THEN Rendered(s, <<>>, <<>>)
  ELSE LET Place(r) ==
             LET Join(rest) == [rest EXCEPT !.cleanup = r.cleanup \o @]
             IN Join(renderChildren(
                       IF r.nodes = <<>> THEN r.st
                       ELSE appendChild(r.st, target, r.nodes[1]),
                       Tail(kids), target))
       IN Place(renderWithCache(s, Instr(Head(kids))))

\* index.ts:63-86 (a text node as target has no children here)
renderDynamic(s, instruction) ==
  LET made == instruction.target = NoNode
      target == IF made THEN s.nextNode ELSE instruction.target
      s0 == IF made THEN [s EXCEPT !.nextNode = @ + 1] ELSE s
      hasFor == \E i \in 1..Len(instruction.bindings) :
                   instruction.bindings[i].type = "for"
      \* index.ts:162-170, 266-267: renderForBinding
      ForNodes(r) == Rendered(r.st, <<Anchor>>, <<r.id>>)
      Children(b) ==
        LET Result(c) == Rendered(c.st, <<target>>, b.cleanup \o c.cleanup)
        IN Result(renderChildren(b.st, instruction.children, target))
  IN IF hasFor
     THEN ForNodes(effect(s0, "for", "items", Anchor))
     ELSE Children(createBindings(s0, instruction.bindings, target))

\* index.ts:311-321: effect(callback) up to its return; id names the computed
effect(s, kind, cell, node) ==
  LET e == Len(s.effects) + 1
      Result(r) == [st |-> r.st, id |-> e, threw |-> r.threw]
  IN Result(Recompute([s EXCEPT
                         !.effects = Append(@, NewEffect(kind, cell, node)),
                         !.watchList = Append(@, e),
                         !.wdirty = FALSE],
                      e))

\* A callback of client code that reads its cell and returns a new cleanup
\* function on every run: effect(() => { cell.get(); return () => {...} })
LeafCallback(s, e) ==
  [st |-> [s EXCEPT !.effects[e].log = Append(@, Event("run", s.effects[e].runs)),
                    !.effects[e].cleanup = s.effects[e].runs],
   threw |-> FALSE]

\* A callback of client code that reads its cell and calls the disposers
\* client code has collected from its "leaf" effects, as the for-binding's
\* callback calls those of an entry (index.ts:195):
\* effect(() => { cell.get(); disposers.forEach(d => d()) })
OwnerCallback(s, e) ==
  [st |-> RunDisposers(s, SelectSeq([i \in 1..Len(s.effects) |-> i],
                                    LAMBDA i : s.effects[i].kind = "leaf")),
   threw |-> FALSE]

\* The computed's computation, index.ts:314-317, run by computed.get()
Recompute(s, e) ==
  LET eff == s.effects[e]
      Run(s0) ==
        [s0 EXCEPT !.effects[e].runs = @ + 1,
                   !.effects[e].late = @ + (IF eff.disposed THEN 1 ELSE 0),
                   !.effects[e].dirty = FALSE,
                   !.effects[e].stale = FALSE]
      \* the computed keeps the error a run threw as its value
      Kept(r) == [r EXCEPT !.st.effects[e].errored = r.threw]
  IN CASE eff.kind = "for" -> Kept(renderForRun(Run(s), e))
       [] eff.kind = "leaf" -> Kept(LeafCallback(Run(CallCleanup(s, e)), e))
       [] eff.kind = "owner" -> Kept(OwnerCallback(Run(s), e))
       [] OTHER -> \* index.ts:104-109, 113-130
            Kept(scheduleUpdate(Run(s),
                                SetCb(eff.kind, eff.node,
                                      s.cells[eff.cell], e)))

\* instructions.forEach of index.ts:206-210
RenderAll(s, instructions) ==
  IF instructions = <<>> THEN Rendered(s, <<>>, <<>>)
  ELSE LET First(r) ==
             LET Join(rest) ==
                   Rendered(rest.st, r.nodes \o rest.nodes,
                            r.cleanup \o rest.cleanup)
             IN Join(RenderAll(r.st, Tail(instructions)))
       IN First(renderWithCache(s, Head(instructions)))

EntryOf(itemMap, key) ==
  IF \E i \in 1..Len(itemMap) : itemMap[i].key = key
  THEN CHOOSE i \in 1..Len(itemMap) : itemMap[i].key = key
  ELSE 0

RECURSIVE WithoutAll(_, _)
WithoutAll(seq, xs) ==
  IF xs = <<>> THEN seq ELSE WithoutAll(Without(seq, Head(xs)), Tail(xs))

RECURSIVE PlaceNodes(_, _, _, _)
\* index.ts:220-240: the position update of one entry's nodes.  r holds the
\* run's currentNodes (cur) and updates (ups); indexes are 0-based as in
\* the code.
PlaceNodes(r, nodes, index, nodeIndex) ==
  IF nodeIndex >= Len(nodes) THEN r
  ELSE
    LET node == nodes[nodeIndex + 1]
        currentIndex == IndexOf(r.cur, node) - 1
        desiredIndex == index + nodeIndex
        At(seq, i) == IF i < Len(seq) THEN seq[i + 1] ELSE Anchor
        Push(ups, ref) == IF parentNode(r.st, ref) # NoNode
                          THEN Append(ups, <<node, ref>>) ELSE ups
        r1 == IF currentIndex = -1
              THEN [r EXCEPT !.ups = Push(@, At(r.cur, desiredIndex)),
                             !.cur = SpliceIn(@, desiredIndex, node)]
              ELSE IF currentIndex # desiredIndex
              THEN LET moved == SpliceIn(Without(r.cur, node),
                                         desiredIndex, node)
                   IN [r EXCEPT !.cur = moved,
                                !.ups = Push(@, At(moved, desiredIndex + 1))]
              ELSE r
    IN PlaceNodes(r1, nodes, index, nodeIndex + 1)

\* index.ts:188-241: processedItems.forEach, from position index on
ProcessItems(r, e, processed, index) ==
  IF index >= Len(processed) THEN r
  ELSE
    LET item == processed[index + 1]
        key == trackBy(item)
        at == EntryOf(r.itemMap, key)
        needsUpdate == at = 0 \/ ~itemsEqual(<<FieldsOf(r.itemMap[at].item),
                                                 FieldsOf(item)>>,
                                               Obj(1), Obj(2))
        \* index.ts:202-213
        Build(r1) ==
          LET Store(made) ==
                LET entry == [key |-> key, nodes |-> made.nodes,
                              cleanup |-> made.cleanup, item |-> item]
                IN [r1 EXCEPT
                      !.st = made.st,
                      !.rebuilt = @ \cup {key},
                      !.itemMap = IF at = 0 THEN Append(@, entry)
                                  ELSE [@ EXCEPT ![at] = entry]]
          IN IF ~needsUpdate THEN r1
             ELSE Store(RenderAll(r1.st, template(r1.st.templateKind, item)))
        \* index.ts:219-240
        Place(r2) ==
          PlaceNodes(r2, r2.itemMap[EntryOf(r2.itemMap, key)].nodes, index, 0)
    IN ProcessItems(
         Place(Build(\* index.ts:194-200
                     IF needsUpdate /\ at # 0
                     THEN [r EXCEPT
                             !.st = RunDisposers(@, r.itemMap[at].cleanup),
                             !.cur = WithoutAll(@, r.itemMap[at].nodes),
                             !.cleaned = @ \cup {key}]
                     ELSE r)),
         e, processed, index + 1)

RECURSIVE RemoveOldKeepingNodes(_, _, _)
\* the removal loop without the removals of index.ts:248-254
RemoveOldKeepingNodes(r, newKeys, i) ==
  IF i > Len(r.itemMap) THEN r
  ELSE IF r.itemMap[i].key \in newKeys
  THEN RemoveOldKeepingNodes(r, newKeys, i + 1)
  ELSE RemoveOldKeepingNodes(
         [r EXCEPT !.st = RunDisposers(@, r.itemMap[i].cleanup),
                   !.cleaned = @ \cup {r.itemMap[i].key},
                   !.itemMap = SubSeq(@, 1, i - 1)
                               \o SubSeq(@, i + 1, Len(@))],
         newKeys, i)

RECURSIVE RemoveOld(_, _, _)
\* index.ts:244-257: the entries whose key is not among the new keys
RemoveOld(r, newKeys, i) ==
  IF i > Len(r.itemMap) THEN r
  ELSE IF r.itemMap[i].key \in newKeys THEN RemoveOld(r, newKeys, i + 1)
  ELSE RemoveOld([r EXCEPT
                    !.st = RunDisposers(@, r.itemMap[i].cleanup),
                    !.cleaned = @ \cup {r.itemMap[i].key},
                    !.rem = @ \o r.itemMap[i].nodes,
                    !.itemMap = SubSeq(@, 1, i - 1)
                                \o SubSeq(@, i + 1, Len(@))],
                 newKeys, i)

\* processedItems without the test of index.ts:181
ProcessedWithoutFilter(items) == items

RECURSIVE Processed(_)
\* index.ts:178-185: the items whose template returns an instruction
Processed(items) ==
  IF items = <<>> THEN <<>>
  ELSE IF Head(items).w = 0 THEN Processed(Tail(items))
       ELSE <<Head(items)>> \o Processed(Tail(items))

\* index.ts:170-264: one run of the for-binding's effect callback
renderForRun(s, e) ==
  LET before == Len(s.effects)
      processed == Processed(s.cells.items)
      newKeys == {trackBy(processed[i]) : i \in 1..Len(processed)}
      run == s.hist.forRun.count + 1
      Finish(r1) ==
        scheduleUpdate(
          [r1.st EXCEPT
             !.effects[e].itemMap = r1.itemMap,
             !.effects[e].producers =
                [i \in 1..(Len(r1.st.effects) - before) |-> before + i],
             !.effects[e].order =
                [i \in 1..Len(processed) |-> trackBy(processed[i])],
             !.hist.forRun =
                [count |-> run, eff |-> e, items |-> s.cells.items,
                 prev |-> s.effects[e].itemMap,
                 prevOrder |-> s.effects[e].order,
                 cleaned |-> r1.cleaned, rebuilt |-> r1.rebuilt,
                 rem |-> r1.rem, ups |-> r1.ups,
                 domBefore |-> s.children,
                 applied |-> FALSE, threw |-> FALSE]],
          BundleCb(e, run, r1.rem, r1.ups))
  IN Finish(RemoveOld(
              ProcessItems([st |-> s, itemMap |-> s.effects[e].itemMap,
                            cur |-> Without(s.children[ForParent], Anchor),
                            ups |-> <<>>, rem |-> <<>>, cleaned |-> {},
                            rebuilt |-> {}],
                           e, processed, 0),
              newKeys, 1))

----------------------------------------------------------------------------
(* processPending and BatchScheduler.flush *)

\* producerUpdateValueVersion of the signal library on a computed made by
\* effect(): clean and live, nothing; else it recomputes when a cell it read
\* changed; else it asks the computeds it read to do the same and is clean
\* (their value, undefined, never changes)
RECURSIVE UpdateAll(_, _)
UpdateLeaf(s, p) ==
  IF Live(s, p) /\ ~s.effects[p].dirty THEN s
  ELSE IF s.effects[p].stale THEN Recompute(s, p).st
  ELSE [s EXCEPT !.effects[p].dirty = FALSE]

UpdateAll(s, producers) ==
  IF producers = <<>> THEN s
  ELSE UpdateAll(UpdateLeaf(s, Head(producers)), Tail(producers))

\* computed.get() as processPending calls it, index.ts:305: the computed is
\* brought up to date, and get() throws when its value is the error of its
\* last run, whether or not that run was made by this call
get(s, e) ==
  IF Live(s, e) /\ ~s.effects[e].dirty
  THEN [st |-> s, threw |-> s.effects[e].errored]
  ELSE IF s.effects[e].stale THEN Recompute(s, e)
  ELSE [st |-> [UpdateAll(s, s.effects[e].producers)
                  EXCEPT !.effects[e].dirty = FALSE],
        threw |-> s.effects[e].errored]

RECURSIVE GetAll(_, _)
\* the loop of index.ts:304-306 over the array getPending() returned
GetAll(s, list) ==
  IF list = <<>> THEN [st |-> s, threw |-> FALSE]
  ELSE LET Rest(r) == IF r.threw THEN r ELSE GetAll(r.st, Tail(list))
       IN Rest(get(s, Head(list)))

\* Watcher.getPending(): the watched computeds that are dirty
getPending(s) ==
  SelectSeq(s.watchList, LAMBDA e : s.effects[e].dirty)

\* index.ts:301-309; w.watch() resets the watcher's dirty flag
processPending(s) ==
  LET s1 == [s EXCEPT !.needsEnqueue = TRUE]
      Watch(r) == IF r.threw THEN r ELSE [r EXCEPT !.st.wdirty = FALSE]
  IN Watch(GetAll(s1, getPending(s1)))

RECURSIVE flush(_), RunUpdates(_, _, _), RunUpdate(_, _)

\* Invoking one callback: the state it leaves and whether it threw
RunUpdate(s, cb) ==
  CASE cb.kind = "user" /\ cb.id = "boom" -> [st |-> s, threw |-> TRUE]
    [] cb.kind = "user" /\ cb.id = "chain" ->
         [st |-> schedule(s, UserCb("f")), threw |-> FALSE]
    [] cb.kind = "user" /\ cb.id = "reent" ->
         LET Returned(s2) ==
               [st |-> [s2 EXCEPT !.reentRan = @ \/ (s2 # s)],
                threw |-> FALSE]
         IN Returned(flush(s))
    [] cb.kind = "user" -> [st |-> s, threw |-> FALSE]
    [] cb.kind = "pp" -> processPending(s)
    [] OTHER -> ApplyMutation(s, cb)

\* History of an invocation: the pass has run cb; an invocation of an
\* observed callback of client code flips the callback's bit
Invoked(s, cb) ==
  IF cb.kind = "user" /\ cb.id \in DOMAIN s.hist.ran
  THEN [s EXCEPT !.passRan = Append(@, cb), !.hist.ran[cb.id] = ~@]
  ELSE [s EXCEPT !.passRan = Append(@, cb)]

\* The loop without its try/catch: a throw ends the loop
RunUpdatesNoCatch(s, updates, i) ==
  IF i > Len(updates) THEN s
  ELSE LET Rest(r) ==
             IF r.threw
             THEN [r.st EXCEPT !.passThrew = @ \cup {i}]
             ELSE RunUpdates(r.st, updates, i + 1)
       IN Rest(RunUpdate(Invoked(s, updates[i]), updates[i]))

\* batch.ts:34-40: the loop over the snapshot, try/catch around each callback
RunUpdates(s, updates, i) ==
  IF i > Len(updates) THEN s
  ELSE LET Rest(r) ==
             RunUpdates(IF r.threw
                        THEN [r.st EXCEPT !.passThrew = @ \cup {i}]
                        ELSE r.st,
                        updates, i + 1)
       IN Rest(RunUpdate(Invoked(s, updates[i]), updates[i]))

\* flush() without the isFlushing test of its first line
flushReentrant(s) ==
  IF Len(s.pending) = 0 THEN s
  ELSE LET \* batch.ts:42-47
            End(s2) ==
              LET s3 == [s2 EXCEPT !.isFlushing = FALSE]
              IN IF Len(s3.pending) > 0
                 THEN [s3 EXCEPT !.isScheduled = TRUE, !.microtasks = @ + 1]
                 ELSE s3
       IN End(RunUpdates([s EXCEPT !.isFlushing = TRUE,
                                   !.isScheduled = FALSE,
                                   !.pending = <<>>,
                                   !.passSnap = s.pending,
                                   !.passCalls = s.calls,
                                   !.calls = <<>>,
                                   !.passRan = <<>>,
                                   !.passThrew = {}],
                         s.pending, 1))

\* batch.ts:25-48
flush(s) ==
  IF s.isFlushing \/ Len(s.pending) = 0 THEN s
  ELSE LET \* batch.ts:42-47
            End(s2) ==
              LET s3 == [s2 EXCEPT !.isFlushing = FALSE]
              IN IF Len(s3.pending) > 0
                 THEN [s3 EXCEPT !.isScheduled = TRUE, !.microtasks = @ + 1]
                 ELSE s3
       IN End(RunUpdates([s EXCEPT !.isFlushing = TRUE,
                                   !.isScheduled = FALSE,
                                   !.pending = <<>>,
                                   !.passSnap = s.pending,
                                   !.passCalls = s.calls,
                                   !.calls = <<>>,
                                   !.passRan = <<>>,
                                   !.passThrew = {}],
                         s.pending, 1))

----------------------------------------------------------------------------
(* DOMRenderer.mount and the disposer it returns *)

RECURSIVE AppendAll(_, _, _), DetachAll(_, _)
AppendAll(s, parent, nodes) ==
  IF nodes = <<>> THEN s
  ELSE AppendAll(appendChild(s, parent, Head(nodes)), parent, Tail(nodes))

DetachAll(s, nodes) ==
  IF nodes = <<>> THEN s
  ELSE DetachAll(IF parentNode(s, Head(nodes)) # NoNode
                 THEN removeChild(s, Head(nodes)) ELSE s,
                 Tail(nodes))

EmptyCache == [uid \in InstrIds |-> NoEntry]

\* index.ts:19-22; the record is what the returned disposer closes over
mount(s, uid, container) ==
  LET Place(r) ==
        [AppendAll(r.st, container, r.nodes) EXCEPT !.mounts =
           Append(@, [instr |-> uid, container |-> container,
                      nodes |-> r.nodes, cleanup |-> r.cleanup,
                      epoch |-> s.hist.resets, disposed |-> FALSE])]
  IN Place(renderWithCache(s, Instr(uid)))

\* index.ts:23-31: the disposer of mount number m
unmount(s, m) ==
  LET s1 == RunDisposers(s, s.mounts[m].cleanup)
      s2 == DetachAll(s1, s.mounts[m].nodes)
  IN [s2 EXCEPT !.cache = EmptyCache,
                !.hist.built = [uid \in InstrIds |-> 0],
                !.hist.resets = @ + 1,
                !.mounts[m].disposed = TRUE]

----------------------------------------------------------------------------
(* The state record the handlers work on *)

Cur ==
  [pending |-> pending, isFlushing |-> isFlushing, isScheduled |-> isScheduled,
   microtasks |-> microtasks, immediate |-> immediate,
   templateKind |-> templateKind, cache |-> cache, cells |-> cells,
   needsEnqueue |-> needsEnqueue, wdirty |-> wdirty, watchList |-> watchList,
   effects |-> effects, children |-> children, nodeValue |-> nodeValue,
   nextNode |-> nextNode, mounts |-> mounts, calls |-> calls,
   passCalls |-> passCalls, passSnap |-> passSnap, passRan |-> passRan,
   passThrew |-> passThrew, reentRan |-> reentRan, hist |-> hist]

Install(s) ==
  /\ pending' = s.pending
  /\ isFlushing' = s.isFlushing
  /\ isScheduled' = s.isScheduled
  /\ microtasks' = s.microtasks
  /\ immediate' = s.immediate
  /\ templateKind' = s.templateKind
  /\ cache' = s.cache
  /\ cells' = s.cells
  /\ needsEnqueue' = s.needsEnqueue
  /\ wdirty' = s.wdirty
  /\ watchList' = s.watchList
  /\ effects' = s.effects
  /\ children' = s.children
  /\ nodeValue' = s.nodeValue
  /\ nextNode' = s.nextNode
  /\ mounts' = s.mounts
  /\ calls' = s.calls
  /\ passCalls' = s.passCalls
  /\ passSnap' = s.passSnap
  /\ passRan' = s.passRan
  /\ passThrew' = s.passThrew
  /\ reentRan' = s.reentRan
  /\ hist' = s.hist
  /\ UNCHANGED compared

----------------------------------------------------------------------------
(* Initial states *)

\* ForParent holds the anchor, ir/index.ts:218
InitChildren ==
  [p \in Parents |-> CASE p = ForParent -> <<Anchor>>
                       [] p = IfParent -> <<IfAnchor>>
                       [] OTHER -> <<>>]

InitHist ==
  [built |-> [uid \in InstrIds |-> 0],      \* builds since the cache reset
   builtEver |-> [uid \in InstrIds |-> 0],  \* builds since the start
   resets |-> 0,                            \* cache resets
   writes |-> 0,                            \* cell writes
   lateApplied |-> FALSE,  \* a binding wrote its node after its disposer ran
   syncApplied |-> FALSE,  \* a mutation was applied inside an effect run
   ran |-> <<>>,  \* for each observed callback, a bit its invocation flips
   forRun |-> [count |-> 0, eff |-> 0, items |-> <<>>, prev |-> <<>>,
               prevOrder |-> <<>>,
               cleaned |-> {}, rebuilt |-> {}, rem |-> <<>>, ups |-> <<>>,
               domBefore |-> InitChildren, applied |-> FALSE,
               threw |-> FALSE]]            \* the last run of a for-binding

\* new Signal.State(value) for the cells of the model
InitCells(items) ==
  [txt |-> "a", attr |-> "x", cond |-> TRUE, items |-> items]

InitProgram ==
  /\ pending = <<>>
  /\ isFlushing = FALSE
  /\ isScheduled = FALSE
  /\ microtasks = 0
  /\ cache = EmptyCache
  /\ needsEnqueue = TRUE
  /\ wdirty = FALSE
  /\ watchList = <<>>
  /\ effects = <<>>
  /\ children = InitChildren
  /\ nodeValue = <<>>
  /\ nextNode = FirstFreshNode
  /\ mounts = <<>>
  /\ calls = <<>>
  /\ passCalls = <<>>
  /\ passSnap = <<>>
  /\ passRan = <<>>
  /\ passThrew = {}
  /\ reentRan = FALSE

InitCommon ==
  /\ InitProgram
  /\ hist = InitHist

\* No call of itemsEqual is recorded
NoComparison ==
  [heap |-> <<>>, a |-> Undefined, b |-> Undefined, called |-> FALSE,
   result |-> FALSE]

\* new DOMRenderer() as main.ts:206 makes it
InitScheduler ==
  /\ InitCommon
  /\ compared = NoComparison
  /\ immediate = FALSE
  /\ templateKind = "static"
  /\ cells = InitCells(<<>>)

\* new DOMRenderer(options), index.ts:15-17
InitMount ==
  /\ InitCommon
  /\ compared = NoComparison
  /\ immediate \in BOOLEAN
  /\ templateKind = "static"
  /\ cells = InitCells(<<>>)

\* The sequence cell is made empty (main.ts:11) or with three items
InitFor ==
  /\ InitCommon
  /\ compared = NoComparison
  /\ immediate \in BOOLEAN
  /\ templateKind \in {"static", "bound"}
  /\ \E items \in {<<>>, InitItems} : cells = InitCells(items)

----------------------------------------------------------------------------
(* Actions: one per call client code or the host makes *)

\* A client calls schedule(update)
Schedule ==
  \E id \in UserCallbacks :
    /\ Len(calls) < MaxCalls
    /\ microtasks < MaxMicrotasks
    /\ Install(schedule(Cur, UserCb(id)))

\* A queued microtask runs: () => this.flush()
MicrotaskFlush ==
  /\ microtasks > 0
  /\ Install(flush([Cur EXCEPT !.microtasks = @ - 1]))

\* DOMRenderer.flushUpdates(), index.ts:270-272
FlushUpdates ==
  /\ microtasks < MaxMicrotasks
  /\ Install(flush(Cur))

\* renderer.mount(instruction, container)
Mount ==
  \E uid \in {"S", "T", "D"}, container \in {Container1, Container2} :
    /\ Len(mounts) < MaxMounts
    /\ microtasks < MaxMicrotasks
    /\ Install(mount(Cur, uid, container))

\* renderer.mount of the for-instruction, into a container or into the
\* instruction's own target element
MountFor ==
  \E container \in {Container1, ForParent} :
    /\ Len(mounts) < MaxForMounts
    /\ microtasks < MaxMicrotasks
    /\ Install(mount(Cur, "F", container))

\* A disposer returned by mount is called
Dispose ==
  \E m \in 1..Len(mounts) :
    /\ hist.resets < MaxDisposals
    /\ Install(unmount(Cur, m))

Write(cell, value) ==
  /\ hist.writes < MaxWrites
  /\ microtasks < MaxMicrotasks
  /\ Install(set([Cur EXCEPT !.hist.writes = @ + 1], cell, value))

\* cell.set(value) on a cell of primitive values: an equal value is ignored
WriteTxt == \E v \in {"a", "b", "c"} : v # cells.txt /\ Write("txt", v)

WriteAttr == \E v \in {"x", "y"} : v # cells.attr /\ Write("attr", v)

\* Sequences of items with distinct keys

RECURSIVE SeqsUpTo(_)
SeqsUpTo(n) ==
  IF n = 0 THEN {<<>>}
  ELSE LET shorter == SeqsUpTo(n - 1)
       IN shorter \cup
          {Append(q, o) : q \in {x \in shorter : Len(x) = n - 1},
                          o \in ItemObjects}

ItemSeqs ==
  {q \in SeqsUpTo(MaxItems) :
     \A i, j \in 1..Len(q) : q[i].id = q[j].id => i = j}

\* items.set(array): every call passes a new array
WriteItems == \E q \in ItemSeqs : Write("items", q)

\* Client code calls effect(callback) with one of its two callbacks
MakeEffect ==
  \E kind \in {"leaf", "owner"} :
    /\ Len(effects) < MaxEffects
    /\ Install(effect(Cur, kind, "txt", NoNode).st)

\* Client code calls the disposer effect() returned for a "leaf" effect
DisposeEffect ==
  \E e \in 1..Len(effects) :
    /\ effects[e].kind = "leaf"
    /\ DisposerCalls(Cur, e) < MaxDisposerCalls
    /\ Install(disposer(Cur, e))

NextEffect ==
  MakeEffect \/ DisposeEffect \/ WriteTxt \/ MicrotaskFlush \/ FlushUpdates

EffectSpec == InitScheduler /\ [][NextEffect]_vars

\* The property names and property values of the objects compared
EqKeys == {"x", "y"}
EqFieldValues == {Undefined, Null, NaN, Num(1), Obj(1), Obj(2)}

\* The objects: every assignment of values to some of the property names
EqObjects == UNION {[ks -> EqFieldValues] : ks \in SUBSET EqKeys}

\* The arguments: primitives, null and the objects of the heap
EqArguments ==
  {Undefined, Null, NaN, Num(1), Num(2)} \cup {Obj(r) : r \in 1..MaxObjects}

\* The arguments of a call of itemsEqual are drawn, the call not yet made
InitEqual ==
  /\ InitCommon
  /\ immediate = FALSE
  /\ templateKind = "static"
  /\ cells = InitCells(<<>>)
  /\ \E heap \in [1..MaxObjects -> EqObjects], a \in EqArguments,
        b \in EqArguments :
        compared = [heap |-> heap, a |-> a, b |-> b, called |-> FALSE,
                    result |-> FALSE]

\* itemsEqual(a, b) is called
Compare ==
  /\ ~compared.called
  /\ compared' = [compared EXCEPT
                    !.called = TRUE,
                    !.result = itemsEqual(compared.heap, compared.a,
                                          compared.b)]
  /\ UNCHANGED <<pending, isFlushing, isScheduled, microtasks, immediate,
                 templateKind, cache, cells, needsEnqueue, wdirty, watchList,
                 effects, children, nodeValue, nextNode, mounts, calls,
                 passCalls, passSnap, passRan, passThrew, reentRan, hist>>

NextEqual == Compare

EqualSpec == InitEqual /\ [][NextEqual]_vars

NextScheduler == Schedule \/ MicrotaskFlush \/ FlushUpdates

SchedulerSpec == InitScheduler /\ [][NextScheduler]_vars

\* A client calls schedule(update) with a callback that returns, one that
\* throws or one that schedules further work
LiveCallbacks == {"f", "boom", "chain"}

ScheduleLive ==
  \E id \in LiveCallbacks :
    /\ Len(calls) < MaxLiveCalls
    /\ microtasks < MaxMicrotasks
    /\ Install(schedule(Cur, UserCb(id)))

NextSchedulerLive == ScheduleLive \/ MicrotaskFlush \/ FlushUpdates

\* new DOMRenderer(), the invocations of the callbacks observed
InitSchedulerLive ==
  /\ InitProgram
  /\ hist = [InitHist EXCEPT !.ran = [id \in LiveCallbacks |-> FALSE]]
  /\ compared = NoComparison
  /\ immediate = FALSE
  /\ templateKind = "static"
  /\ cells = InitCells(<<>>)

\* The host runs every microtask it has queued
SchedulerLiveSpec ==
  InitSchedulerLive /\ [][NextSchedulerLive]_vars /\ WF_vars(MicrotaskFlush)

NextMount == Mount \/ Dispose \/ WriteTxt \/ MicrotaskFlush \/ FlushUpdates

MountSpec == InitMount /\ [][NextMount]_vars

\* renderer.mount of an if-instruction or of the text instruction
MountIf ==
  \E uid \in {"I", "T"}, container \in {Container1, Container2} :
    /\ Len(mounts) < MaxMounts
    /\ microtasks < MaxMicrotasks
    /\ Install(mount(Cur, uid, container))

\* cond.set(value)
WriteCond == \E v \in BOOLEAN : v # cells.cond /\ Write("cond", v)

NextIf ==
  MountIf \/ Dispose \/ WriteCond \/ WriteTxt \/ MicrotaskFlush
    \/ FlushUpdates

IfSpec == InitMount /\ [][NextIf]_vars

NextFor ==
  MountFor \/ Dispose \/ WriteItems \/ WriteAttr \/ MicrotaskFlush
    \/ FlushUpdates

ForSpec == InitFor /\ [][NextFor]_vars

----------------------------------------------------------------------------
(* Claims about the scheduler (SchedulerSpec) *)

RECURSIVE FirstOccurrences(_)
\* a sequence without the repetitions of its elements, first positions kept
FirstOccurrences(seq) ==
  IF seq = <<>> THEN <<>>
  ELSE LET init == FirstOccurrences(SubSeq(seq, 1, Len(seq) - 1))
           last == seq[Len(seq)]
       IN IF Contains(init, last) THEN init ELSE Append(init, last)

\* C1: the callbacks a pass ran are the distinct callback references passed
\* to schedule() before the pass began, each once, in the order of their
\* first schedule() call.
C1_OncePerPassInFirstScheduleOrder ==
  /\ passRan = FirstOccurrences(passCalls)
  /\ \A i, j \in 1..Len(passRan) : passRan[i] = passRan[j] => i = j

\* a pass ran after the same reference had been scheduled twice, with another
\* reference in between
C1_Witness ==
  /\ Len(passCalls) = 3
  /\ passCalls[1] = passCalls[3]
  /\ passCalls[1] # passCalls[2]
  /\ passRan = <<passCalls[1], passCalls[2]>>

\* C4: a pass runs exactly its snapshot; what a running callback schedules
\* stays pending for a later pass, for which a microtask is queued; a flush()
\* made during a pass runs nothing.
C4_PassRunsExactlyItsSnapshot ==
  /\ passRan = passSnap
  /\ ~reentRan
  /\ \A i \in 1..Len(calls) : Contains(pending, calls[i])
  /\ pending # <<>> => isScheduled /\ microtasks >= 1

\* a pass in which "chain" scheduled "f" and "reent" called flush(): "f" is
\* pending after the pass and was not run by it
C4_Witness ==
  /\ passSnap = <<UserCb("chain"), UserCb("reent")>>
  /\ passRan = passSnap
  /\ pending = <<UserCb("f")>>
  /\ calls = <<UserCb("f")>>

\* C5: when a callback of a pass throws, the callbacks queued after it in
\* that pass are still invoked, in order, and the pass ends normally.
C5_ThrowDoesNotStopThePass ==
  \A i \in passThrew :
    /\ ~isFlushing
    /\ Len(passRan) = Len(passSnap)
    /\ \A j \in (i + 1)..Len(passSnap) : passRan[j] = passSnap[j]

\* a pass whose first callback threw and that had two more callbacks queued
C5_Witness ==
  /\ passThrew = {1}
  /\ Len(passSnap) = 3
  /\ passRan = passSnap

----------------------------------------------------------------------------
(* Claims about mount, its disposer and effect() *)

Attached(ch, node) == \E p \in Parents : Contains(ch[p], node)

\* C2: a mutation a binding scheduled is not applied to the node once the
\* disposer of the binding's mount has been called (MountSpec).
C2_NoMutationAfterDispose == ~hist.lateApplied

\* C3: the callback of an effect is not run after the effect's disposer has
\* been called (MountSpec, ForSpec).
C3_NoRunAfterDispose == \A e \in 1..Len(effects) : effects[e].late = 0

\* C6: two mounts of the static instruction have different nodes, and when
\* they went into two containers and neither was disposed, each container
\* holds the node of its mount (MountSpec).
C6_EachPlacementItsOwnNode ==
  \A m1, m2 \in 1..Len(mounts) :
    (m1 # m2 /\ mounts[m1].instr = "S" /\ mounts[m2].instr = "S") =>
      /\ \A i \in 1..Len(mounts[m1].nodes) :
            ~Contains(mounts[m2].nodes, mounts[m1].nodes[i])
      /\ (/\ mounts[m1].container # mounts[m2].container
          /\ ~mounts[m1].disposed /\ ~mounts[m2].disposed) =>
            \A i \in 1..Len(mounts[m1].nodes) :
              Contains(children[mounts[m1].container], mounts[m1].nodes[i])

\* C7 as stated: no instruction is materialized more than once, whatever
\* mounts and disposer calls are made (MountSpec).
C7_MaterializedAtMostOnceEver ==
  \A uid \in InstrIds : hist.builtEver[uid] <= 1

\* C7 as amended: between two calls of a disposer, no instruction is
\* materialized more than once, and the mounts of one instruction made in
\* between have the same nodes and the same cleanup functions.
C7_MaterializedOncePerCache ==
  /\ \A uid \in InstrIds : hist.built[uid] <= 1
  /\ \A m1, m2 \in 1..Len(mounts) :
       (mounts[m1].instr = mounts[m2].instr
          /\ mounts[m1].epoch = mounts[m2].epoch) =>
         /\ mounts[m1].nodes = mounts[m2].nodes
         /\ mounts[m1].cleanup = mounts[m2].cleanup

\* the text instruction mounted twice before any disposer call: one
\* materialization, one effect, the same node in both mounts
C7_Witness ==
  /\ Len(mounts) = 2
  /\ mounts[1].instr = "T" /\ mounts[2].instr = "T"
  /\ mounts[1].epoch = mounts[2].epoch
  /\ mounts[1].nodes = mounts[2].nodes
  /\ hist.builtEver["T"] = 1
  /\ Len(effects) = 1

----------------------------------------------------------------------------
(* Claims about the for-binding (ForSpec) *)

lastRun == hist.forRun

\* the last run of a for-binding was a re-run
ReRun == lastRun.count > 0 /\ effects[lastRun.eff].runs > 1

PrevKeys == {lastRun.prev[i].key : i \in 1..Len(lastRun.prev)}

NodesOf(itemMap, key) == itemMap[EntryOf(itemMap, key)].nodes

CleanupOf(itemMap, key) == itemMap[EntryOf(itemMap, key)].cleanup

\* the nodes a scheduled bundle inserts, moves or removes
Touched ==
  {lastRun.ups[i][1] : i \in 1..Len(lastRun.ups)}
    \cup {lastRun.rem[i] : i \in 1..Len(lastRun.rem)}

\* the keys rendered before and after the run whose item was found equal
Kept == {k \in PrevKeys : Contains(effects[lastRun.eff].order, k)
                             /\ k \notin lastRun.rebuilt}

\* the scheduler has drained and the bundle of the last run was invoked
Drained == pending = <<>> /\ lastRun.applied

\* a default renderer with the for-instruction mounted and not disposed
Plain ==
  /\ ~immediate
  /\ Len(mounts) = 1
  /\ ~mounts[1].disposed

\* C8: a re-run schedules no insert, move or removal for the nodes of an
\* item whose key is cached, whose value is shallow-equal to the previous
\* one and whose position among the rendered items is the same.
C8_UnchangedItemNoMutation ==
  (ReRun /\ Plain) =>
    \A k \in Kept :
      IndexOf(effects[lastRun.eff].order, k) = IndexOf(lastRun.prevOrder, k) =>
        \A i \in 1..Len(NodesOf(lastRun.prev, k)) :
          NodesOf(lastRun.prev, k)[i] \notin Touched

\* C9: after a re-run that found the item of a cached key changed, the old
\* entry's cleanup functions have run, the entry has new nodes, and once the
\* scheduler has drained the old nodes are detached and the new attached.
C9_ChangedItemRebuilt ==
  (ReRun /\ Plain) =>
    \A k \in PrevKeys \cap lastRun.rebuilt :
      /\ k \in lastRun.cleaned
      /\ \A i \in 1..Len(CleanupOf(lastRun.prev, k)) :
            effects[CleanupOf(lastRun.prev, k)[i]].disposed
      /\ \A i \in 1..Len(NodesOf(lastRun.prev, k)) :
            ~Contains(NodesOf(effects[lastRun.eff].itemMap, k),
                      NodesOf(lastRun.prev, k)[i])
      /\ Drained =>
            /\ \A i \in 1..Len(NodesOf(lastRun.prev, k)) :
                  ~Attached(children, NodesOf(lastRun.prev, k)[i])
            /\ \A i \in 1..Len(NodesOf(effects[lastRun.eff].itemMap, k)) :
                  Attached(children, NodesOf(effects[lastRun.eff].itemMap, k)[i])

\* the keys rendered before the run and absent from the source sequence
Removed ==
  {k \in PrevKeys : ~Contains(effects[lastRun.eff].order, k)}

\* the last run was a re-run in which keys disappeared and the keys that
\* remain follow each other as before
KeyDisappears ==
  /\ ReRun
  /\ Removed # {}
  /\ effects[lastRun.eff].order
       = SelectSeq(lastRun.prevOrder, LAMBDA k : k \notin Removed)

\* node a stands before node b among the children of one parent
Before(ch, a, b) ==
  \E p \in Parents :
    /\ Contains(ch[p], a) /\ Contains(ch[p], b)
    /\ IndexOf(ch[p], a) < IndexOf(ch[p], b)

KeptNodes ==
  UNION {{NodesOf(lastRun.prev, k)[i] :
            i \in 1..Len(NodesOf(lastRun.prev, k))} : k \in Kept}

\* C10: a re-run in which keys disappeared ran the cleanup functions of the
\* disappeared keys and of no key that stays, and scheduled the removal of
\* exactly the disappeared keys' nodes; once the scheduler has drained, those
\* nodes are detached and the nodes of the keys that stay are attached as
\* before and in their prior relative order.
C10_RemovalTearsDownExactlyThatKey ==
  KeyDisappears =>
    /\ Removed \subseteq lastRun.cleaned
    /\ lastRun.cleaned \cap Kept = {}
    /\ \A k \in Removed : \A i \in 1..Len(CleanupOf(lastRun.prev, k)) :
          effects[CleanupOf(lastRun.prev, k)[i]].disposed
    /\ \A k \in Kept : \A i \in 1..Len(CleanupOf(lastRun.prev, k)) :
          ~effects[CleanupOf(lastRun.prev, k)[i]].disposed
    /\ {lastRun.rem[i] : i \in 1..Len(lastRun.rem)}
         = UNION {{NodesOf(lastRun.prev, k)[i] :
                     i \in 1..Len(NodesOf(lastRun.prev, k))} : k \in Removed}
    /\ Drained =>
         /\ \A i \in 1..Len(lastRun.rem) :
               ~Attached(children, lastRun.rem[i])
         /\ \A a \in KeptNodes :
               Attached(lastRun.domBefore, a) => Attached(children, a)
         /\ \A a, b \in KeptNodes :
               Before(lastRun.domBefore, a, b) => Before(children, a, b)

\* items with an attribute binding: key 2 disappeared, keys 1 and 3 stay,
\* and the scheduler has drained
C10_Witness ==
  /\ KeyDisappears
  /\ Drained
  /\ templateKind = "bound"
  /\ Removed = {2}
  /\ Kept = {1, 3}
  /\ effects[CleanupOf(lastRun.prev, 2)[1]].disposed

----------------------------------------------------------------------------
(* Claims C11 to C20 *)

\* the keys of the items for which the template returned no instruction in
\* the last run
FilteredKeys ==
  {lastRun.items[i].id : i \in {j \in 1..Len(lastRun.items) :
                                   lastRun.items[j].w = 0}}

AcceptedKeys ==
  SelectSeq([i \in 1..Len(lastRun.items) |-> lastRun.items[i].id],
            LAMBDA k : k \notin FilteredKeys)

CurrentNodes(k) == NodesOf(effects[lastRun.eff].itemMap, k)

\* C11: an item for which the template returns no instruction has no entry
\* and no position; if its key was rendered before, the run ran the key's
\* cleanup functions and scheduled the removal of its nodes; once the
\* scheduler has drained those nodes are detached, the nodes of the accepted
\* items that were rendered stay attached and, when the bundle was applied
\* without a throw, stand in the order of the sequence without the filtered
\* ones.
C11_FilteredItemHasNoSlot ==
  lastRun.count > 0 =>
    /\ effects[lastRun.eff].order = AcceptedKeys
    /\ \A k \in FilteredKeys :
         /\ EntryOf(effects[lastRun.eff].itemMap, k) = 0
         /\ k \in PrevKeys =>
              /\ k \in lastRun.cleaned
              /\ \A i \in 1..Len(CleanupOf(lastRun.prev, k)) :
                    effects[CleanupOf(lastRun.prev, k)[i]].disposed
              /\ \A i \in 1..Len(NodesOf(lastRun.prev, k)) :
                    /\ Contains(lastRun.rem, NodesOf(lastRun.prev, k)[i])
                    /\ Drained =>
                         ~Attached(children, NodesOf(lastRun.prev, k)[i])
    /\ (Drained /\ FilteredKeys \cap PrevKeys # {}) =>
         /\ \A a \in KeptNodes :
               Attached(lastRun.domBefore, a) => Attached(children, a)
         /\ \A k1, k2 \in Kept :
               (/\ ~lastRun.threw
                /\ IndexOf(AcceptedKeys, k1) < IndexOf(AcceptedKeys, k2)
                /\ Attached(children, CurrentNodes(k1)[1])
                /\ Attached(children, CurrentNodes(k2)[1])) =>
                 Before(children, CurrentNodes(k1)[1], CurrentNodes(k2)[1])

\* items 1, 2, 3 were rendered, then item 1 came with a template result of
\* no instruction: items 2 and 3 stay, and the scheduler has drained
C11_Witness ==
  /\ ReRun
  /\ Drained
  /\ templateKind = "bound"
  /\ FilteredKeys = {1}
  /\ PrevKeys = {1, 2, 3}
  /\ Kept = {2, 3}
  /\ ~Attached(children, NodesOf(lastRun.prev, 1)[1])
  /\ Attached(children, CurrentNodes(2)[1])

\* the nodes that stand before the anchor of the if-instruction
BeforeIfAnchor ==
  {n \in 1..nextNode : Before(children, n, IfAnchor)}

\* C12: while an if-instruction is mounted and the scheduler has drained,
\* the nodes of the branch the condition cell selects stand immediately
\* before the anchor: a node when the condition is true, none when it is
\* false (the instruction has no else-branch).
C12_IfBranchRendered ==
  \A m \in 1..Len(mounts) :
    (mounts[m].instr = "I" /\ ~mounts[m].disposed /\ pending = <<>>) =>
      (cells.cond <=> BeforeIfAnchor # {})

\* the closures of bindings in the pending set
PendingMutations ==
  {i \in 1..Len(pending) : pending[i].kind \notin NamedKinds}

\* C13 as stated: whatever the renderer's configuration, no mutation is
\* applied inside the effect run that computed it.
C13_NeverAppliedSynchronously == ~hist.syncApplied

\* C13 as amended: a default renderer applies no mutation inside the effect
\* run that computed it; a renderer made with immediate: true applies every
\* mutation there and puts none into the pending set.
C13_DeferredUnlessImmediate ==
  /\ ~immediate => ~hist.syncApplied
  /\ immediate => PendingMutations = {}

\* a default renderer: an attribute binding of an item wrote its node and
\* the bundle of a for-binding re-run was applied, all inside flush passes
C13_Witness ==
  /\ ~immediate
  /\ templateKind = "bound"
  /\ ReRun
  /\ lastRun.applied
  /\ \E n \in DOMAIN nodeValue : nodeValue[n] = "y"
  /\ ~hist.syncApplied

\* a live text binding whose cell was written since its last run
WrittenLiveText ==
  \E e \in 1..Len(effects) :
    /\ effects[e].kind = "text"
    /\ Contains(watchList, e)
    /\ effects[e].stale

\* C14: when a cell read by a live text binding of a default renderer has
\* been written, a call of DOMRenderer.flushUpdates() leaves the text node
\* with the cell's value and no binding's closure in the pending set.
C14_FlushUpdatesAppliesWrite ==
  [][(FlushUpdates /\ ~immediate /\ WrittenLiveText) =>
       /\ TextNode \in DOMAIN nodeValue'
       /\ nodeValue'[TextNode] = cells.txt
       /\ PendingMutations' = {}]_vars

\* C15: once the disposer of every mount has run, the watcher watches no
\* effect, and the cleanup functions of every entry a for-binding holds have
\* run (the effects of the entries' bindings are disposed).
C15_DisposerUnregistersEveryEffect ==
  (mounts # <<>> /\ \A m \in 1..Len(mounts) : mounts[m].disposed) =>
    /\ watchList = <<>>
    /\ \A e \in 1..Len(effects) :
         \A i \in 1..Len(effects[e].itemMap) :
           \A j \in 1..Len(effects[e].itemMap[i].cleanup) :
             effects[effects[e].itemMap[i].cleanup[j]].disposed

\* C16: applying the bundle of a for-binding run does not throw: an insert
\* or move whose reference node has no parent is skipped.
C16_NoThrowOnApply == ~lastRun.threw

\* C17: at most one flush microtask is queued and not yet run.
C17_AtMostOneFlushMicrotask == microtasks <= 1

\* The watched effects one of whose cells was written since their last run
StaleWatched ==
  {e \in 1..Len(effects) : Contains(watchList, e) /\ effects[e].stale}

\* How many times processPending is in the scheduler's set
QueuedProcessPending ==
  Cardinality({i \in 1..Len(pending) : pending[i] = ProcessPendingCb})

\* C18: a cell write runs no effect callback; while a watched effect has a
\* stale input, processPending is in the scheduler exactly once (never more
\* than once); and a flush pass that runs it re-runs each of those effects
\* exactly once.
C18_WritesReRunOncePerPass ==
  [][/\ (hist.writes' # hist.writes) =>
          /\ Len(effects') = Len(effects)
          /\ \A e \in 1..Len(effects) : effects'[e].runs = effects[e].runs
     /\ QueuedProcessPending' <= 1
     /\ (StaleWatched' # {}) => (QueuedProcessPending' = 1)
     /\ ((MicrotaskFlush \/ FlushUpdates) /\ QueuedProcessPending = 1) =>
          \A e \in StaleWatched : effects'[e].runs = effects[e].runs + 1]_vars

\* The effects client code made with a callback that returns cleanups
LeafEffects == {e \in 1..Len(effects) : effects[e].kind = "leaf"}

\* How many times the cleanup function returned by run k of e was invoked
CleanupCalls(e, k) ==
  Cardinality({i \in 1..Len(effects[e].log) :
                 effects[e].log[i] = Event("cleanup", k)})

\* C19: the cleanup function a run returned is invoked exactly once when a
\* later run happened or the disposer was called, and not before; it is
\* invoked right before the next run or right after a disposer call, and a
\* second call of the disposer invokes no cleanup.
C19_EachCleanupInvokedOnce ==
  \A e \in LeafEffects :
    LET log == effects[e].log
    IN /\ \A k \in 1..effects[e].runs :
            CleanupCalls(e, k) =
              IF k < effects[e].runs \/ effects[e].disposed THEN 1 ELSE 0
       /\ \A i \in 1..Len(log) :
            /\ (log[i].ev = "run" /\ log[i].k > 1) =>
                 (i > 1 /\ log[i - 1] = Event("cleanup", log[i].k - 1))
            /\ (log[i].ev = "cleanup") =>
                 \/ i < Len(log) /\ log[i + 1] = Event("run", log[i].k + 1)
                 \/ i > 1 /\ log[i - 1].ev = "dispose"
            /\ (log[i].ev = "dispose" /\ log[i].k > 1) =>
                 ~(i < Len(log) /\ log[i + 1].ev = "cleanup")

\* Both arguments are objects (not null)
BothObjects == compared.a.t = "object" /\ compared.b.t = "object"

\* The objects have the same own keys, and under each key values that are
\* the same under ===
SameKeysSameValues ==
  LET oa == compared.heap[compared.a.v]
      ob == compared.heap[compared.b.v]
  IN /\ DOMAIN oa = DOMAIN ob
     /\ \A key \in DOMAIN oa : StrictEquals(oa[key], ob[key])

\* C20: itemsEqual(a, b) is true exactly when a === b, or a and b are
\* non-null objects with the same own keys and ===-equal values under
\* every key.
C20_TrueExactlyOnShallowEquality ==
  compared.called =>
    (compared.result <=>
       \/ StrictEquals(compared.a, compared.b)
       \/ BothObjects /\ SameKeysSameValues)

----------------------------------------------------------------------------
(* Claims C21 to C23 *)

RECURSIVE NodesInOrder(_)
\* The nodes of the entries of the given keys, key after key
NodesInOrder(keys) ==
  IF keys = <<>> THEN <<>>
  ELSE CurrentNodes(Head(keys)) \o NodesInOrder(Tail(keys))

\* The child list of the parent the anchor of the for-binding is in
AnchorSiblings ==
  LET p == CHOOSE q \in Parents : Contains(children[q], Anchor)
  IN children[p]

\* C21: when a re-run's bundle has been applied and the scheduler has
\* drained, the nodes of the accepted items, in the order of the sequence,
\* are the child nodes that stand immediately before the anchor.
C21_RenderedInOrderBeforeAnchor ==
  (Plain /\ ReRun /\ Drained) =>
    LET want == NodesInOrder(AcceptedKeys)
        at == IndexOf(AnchorSiblings, Anchor)
    IN /\ at > Len(want)
       /\ SubSeq(AnchorSiblings, at - Len(want), at - 1) = want

\* C22: when the host runs its queued microtasks, every callback in the
\* pending set is eventually invoked.
C22_ScheduledIsEventuallyRun ==
  \A id \in LiveCallbacks : \A bit \in BOOLEAN :
    (Contains(pending, UserCb(id)) /\ hist.ran[id] = bit)
      ~> (hist.ran[id] # bit)

\* a pass ran "chain", which scheduled "f"; nothing else was scheduled and
\* the next pass ran "f"
C22_Witness ==
  /\ hist.ran["chain"]
  /\ hist.ran["f"]
  /\ passCalls = <<UserCb("f")>>
  /\ passRan = <<UserCb("f")>>
  /\ pending = <<>>

\* The text and attribute bindings that are mounted and not disposed: the
\* disposer of the binding's effect was not called, the watcher watches the
\* effect, and the node the binding writes is in the document
LiveBindings ==
  {e \in 1..Len(effects) :
     /\ effects[e].kind \in {"text", "attribute"}
     /\ ~effects[e].disposed
     /\ Contains(watchList, e)
     /\ Attached(children, effects[e].node)}

\* C23: when the scheduler has drained, the node of every mounted and
\* undisposed text or attribute binding shows the value of the binding's
\* cell, which is the last value written to it.
C23_NodeReflectsLastWrite ==
  (pending = <<>>) =>
    \A e \in LiveBindings :
      /\ effects[e].node \in DOMAIN nodeValue
      /\ nodeValue[effects[e].node] = cells[effects[e].cell]

====
